---- MODULE Spec2Model ----
(***************************************************************************)
(* Model of the Tap-Bill backend: the bearer-token dependency, the         *)
(* verify-token reconciliation flow, the profile endpoints and the        *)
(* super-admin endpoints of backend/server.py over the `users`            *)
(* collection, with the allow-list of backend/auth_service.py.            *)
(*                                                                         *)
(* Every pymongo call is one atomic single-document operation.  A handler  *)
(* that makes one call (or none) is one step; verify_token, which makes    *)
(* three, is one step per call, so that requests served by different       *)
(* worker processes interleave between its calls (a single event loop runs *)
(* an `async def` handler without `await` to its end).  SeqSpec is the     *)
(* same program serving one request at a time, LegacySpec the program      *)
(* started on a database that earlier deployments filled.                  *)
(*                                                                         *)
(* find_one and update_one take the first matching document in natural     *)
(* order, which is insertion order for a collection nothing is deleted     *)
(* from.  Timestamps are BSON dates, whole milliseconds: two utcnow() in   *)
(* the same millisecond store the same value.                              *)
(***************************************************************************)
EXTENDS Integers, Sequences, FiniteSets, Bags, TLC

\* ------------------------------------------------------------------ bounds
MaxInflight == 2    \* requests being served at the same time
MaxUsers == 2       \* documents the collection may hold
MaxClock == 1       \* last millisecond the wall clock reaches

\* ------------------------------------------------------- program constants
SUPER_ADMINS == {"+919899273448"}

HTTP_OK == 200
HTTP_BAD_REQUEST == 400
HTTP_UNAUTHORIZED == 401
HTTP_FORBIDDEN == 403
HTTP_NOT_FOUND == 404

\* ------------------------------------------------------------------ inputs
None == "None"                       \* Python's None (and a missing claim)
AdminPhone == "+919899273448"
UserPhone == "+911111111111"
Phones == {AdminPhone, UserPhone}
Names == {"", "Asha"}

\* Tokens the identity authority knows (or rejects).
Tokens == {"tokAdmin", "tokUser", "tokExpired", "tokNoPhone"}

\* An Authorization header as the sequence of its pieces: the literal
\* "Bearer " and opaque token text.  << >> is the absent (or empty) header.
Headers ==
    {<< >>, <<"Basic ", "tokUser">>} \cup {<<"Bearer ", t>> : t \in Tokens}

\* The characters of a phone number, for the $regex match.
Chars(phone) ==
    CASE phone = "+919899273448" ->
           <<"+", "9", "1", "9", "8", "9", "9", "2", "7", "3", "4", "4", "8">>
      [] phone = "+911111111111" ->
           <<"+", "9", "1", "1", "1", "1", "1", "1", "1", "1", "1", "1", "1">>
      [] OTHER -> << >>

\* Search patterns: regular expressions made of literal characters and ".".
Queries == {<<"9", ".", "9">>, <<"1", "1", "1">>}

\* ------------------------------------------------------------ auth_service
\* firebase_admin.auth.verify_id_token: the external identity authority.
\* A token is the header text left after "Bearer " was removed.
verify_id_token(token) ==
    CASE token = <<"tokAdmin">> ->
           [valid |-> TRUE, phone_number |-> AdminPhone, uid |-> "uidAdmin"]
      [] token = <<"tokUser">> ->
           [valid |-> TRUE, phone_number |-> UserPhone, uid |-> "uidUser"]
      [] token = <<"tokNoPhone">> ->
           [valid |-> TRUE, phone_number |-> None, uid |-> "uidAnon"]
      [] OTHER ->
           [valid |-> FALSE, phone_number |-> None, uid |-> None]

\* verify_firebase_token: the authority's answer; any exception of the
\* authority is raised again as Exception("Invalid token: ...").
verify_firebase_token(id_token) == verify_id_token(id_token)

\* Mutation of is_super_admin: every caller passes.
is_super_admin_anyone(phone_number) == TRUE

is_super_admin(phone_number) == phone_number \in SUPER_ADMINS

\* ------------------------------------------------------- get_current_user
\* authorization.replace("Bearer ", ""): every occurrence is removed.
RemoveBearer(authorization) ==
    SelectSeq(authorization, LAMBDA piece : piece # "Bearer ")

\* Mutation of get_current_user: the phone_number claim is not required.
get_current_user_any_claims(authorization) ==
    IF authorization = << >> \/ Head(authorization) # "Bearer "
    THEN [status |-> HTTP_UNAUTHORIZED, phone_number |-> None, uid |-> None]
    ELSE LET decoded_token == verify_firebase_token(RemoveBearer(authorization))
         IN  IF ~decoded_token.valid
             THEN [status |-> HTTP_UNAUTHORIZED, phone_number |-> None,
                   uid |-> None]
             ELSE [status |-> HTTP_OK,
                   phone_number |-> decoded_token.phone_number,
                   uid |-> decoded_token.uid]

\* The dependency of every authenticated endpoint: the decoded token, or 401.
get_current_user(authorization) ==
    IF authorization = << >> \/ Head(authorization) # "Bearer "
    THEN [status |-> HTTP_UNAUTHORIZED, phone_number |-> None, uid |-> None]
    ELSE LET decoded_token == verify_firebase_token(RemoveBearer(authorization))
         IN  IF ~decoded_token.valid \/ decoded_token.phone_number = None
             THEN [status |-> HTTP_UNAUTHORIZED, phone_number |-> None,
                   uid |-> None]
             ELSE [status |-> HTTP_OK,
                   phone_number |-> decoded_token.phone_number,
                   uid |-> decoded_token.uid]

\* ------------------------------------------------------------- collection
\* db.users is the sequence of its documents in natural (insertion) order;
\* a document's _id is its position.  Nothing is ever deleted.
Matching(docs, phone) == {i \in DOMAIN docs : docs[i].phoneNumber = phone}

Min(S) == CHOOSE x \in S : \A y \in S : x <= y

\* find_one({"phoneNumber": phone}): the _id of the first match, 0 for None.
find_one(docs, phone) ==
    IF Matching(docs, phone) = {} THEN 0 ELSE Min(Matching(docs, phone))

\* update_one({"phoneNumber": phone}, {"$set": changes}) on the first match:
\* the collection afterwards, matched_count and modified_count (a document
\* whose values all stay the same is matched but not modified).
SetFields(doc, changes) ==
    [f \in DOMAIN doc |-> IF f \in DOMAIN changes THEN changes[f] ELSE doc[f]]

update_one(docs, phone, changes) ==
    LET i == find_one(docs, phone)
    IN  IF i = 0
        THEN [docs |-> docs, matched_count |-> 0, modified_count |-> 0]
        ELSE [docs |-> [docs EXCEPT ![i] = SetFields(docs[i], changes)],
              matched_count |-> 1,
              modified_count |->
                  IF SetFields(docs[i], changes) = docs[i] THEN 0 ELSE 1]

\* The regex `query` matches somewhere in the characters `s` ($regex is an
\* unanchored search; "." matches any character).
regex_search(query, s) ==
    \E k \in 0..(Len(s) - Len(query)) :
        \A j \in 1..Len(query) : query[j] = "." \/ query[j] = s[k + j]

\* The projection {"_id": 0}.
WithoutId(doc) ==
    [phoneNumber |-> doc.phoneNumber, firebaseUid |-> doc.firebaseUid,
     name |-> doc.name, isActive |-> doc.isActive,
     isSuperAdmin |-> doc.isSuperAdmin, createdAt |-> doc.createdAt,
     updatedAt |-> doc.updatedAt, lastLogin |-> doc.lastLogin]

\* Mutation of find_not_admins: the $nin filter is missing.
find_everyone(docs) == [i \in DOMAIN docs |-> WithoutId(docs[i])]

\* find({"phoneNumber": {"$nin": SUPER_ADMINS}}, {"_id": 0})
find_not_admins(docs) ==
    LET kept == SelectSeq(docs, LAMBDA d : d.phoneNumber \notin SUPER_ADMINS)
    IN  [i \in DOMAIN kept |-> WithoutId(kept[i])]

\* find({"phoneNumber": {"$regex": query, "$nin": SUPER_ADMINS}}, {"_id": 0})
find_regex_not_admins(docs, query) ==
    LET kept == SelectSeq(docs, LAMBDA d :
                    /\ regex_search(query, Chars(d.phoneNumber))
                    /\ d.phoneNumber \notin SUPER_ADMINS)
    IN  [i \in DOMAIN kept |-> WithoutId(kept[i])]

\* ------------------------------------------------------------------ state
VARIABLES
    users,      \* db.users
    clock,      \* the wall clock (datetime.utcnow(), in BSON milliseconds)
    inflight,   \* the bag of verify_token calls between two database calls
    last        \* the response being sent (NoResponse: none), with its request

vars == <<users, clock, inflight, last>>

NoResponse ==
    [op |-> None, authorization |-> << >>, phone_number |-> None,
     user_phone |-> None, status |-> 0, success |-> FALSE, data |-> << >>,
     deactivated |-> FALSE, dbOps |-> 0, matched_count |-> 0,
     modified_count |-> 0, inserted_id |-> 0]

\* The caller's document is deactivated and the caller is no super admin.
Deactivated(docs, phone) ==
    /\ phone \notin SUPER_ADMINS
    /\ find_one(docs, phone) # 0
    /\ ~docs[find_one(docs, phone)].isActive

\* ---------------------------------------------------------------- requests
\* What a client may send: the endpoint, the Authorization header, and the
\* body, path and query parameters the endpoint takes (None where it takes
\* none).
Request(op, authorization, name, isActive, user_phone, query) ==
    [op |-> op, authorization |-> authorization, name |-> name,
     isActive |-> isActive, user_phone |-> user_phone, query |-> query]

AuthOps == {"verify_token", "get_profile", "update_profile", "get_all_users",
            "search_users", "update_user"}

GoodHeaders == {h \in Headers : get_current_user(h).status = HTTP_OK}
BadHeaders == Headers \ GoodHeaders

Requests ==
    {Request(op, h, None, FALSE, None, << >>) :
        op \in {"verify_token", "get_profile", "get_all_users"},
        h \in GoodHeaders}
    \cup {Request("update_profile", h, n, FALSE, None, << >>) :
            h \in GoodHeaders, n \in Names}
    \cup {Request("search_users", h, None, FALSE, None, q) :
            h \in GoodHeaders, q \in Queries}
    \cup {Request("update_user", h, "Asha", a, p, << >>) :
            h \in GoodHeaders, a \in BOOLEAN, p \in Phones}

\* The handler of `req` as it is entered with the decoded token: its
\* arguments and locals (user, inserted_id), and two history fields:
\* dbOps counts the database calls it has made, and deactivated tells that
\* the caller's document was deactivated when the handler was entered and
\* no update_user has set it active since.
Running(req, docs) ==
    LET current_user == get_current_user(req.authorization)
    IN  [op |-> req.op, authorization |-> req.authorization,
         phone_number |-> current_user.phone_number, uid |-> current_user.uid,
         name |-> req.name, isActive |-> req.isActive,
         user_phone |-> req.user_phone, query |-> req.query,
         pc |-> "find", user |-> 0, inserted_id |-> 0,
         matched_count |-> 0, modified_count |-> 0,
         deactivated |-> Deactivated(docs, current_user.phone_number),
         dbOps |-> 0]

\* The response to request `r` (a handler at its return or raise).
Response(r, status, success, data) ==
    [op |-> r.op, authorization |-> r.authorization,
     phone_number |-> r.phone_number, user_phone |-> r.user_phone,
     status |-> status, success |-> success, data |-> data,
     deactivated |-> r.deactivated, dbOps |-> r.dbOps,
     matched_count |-> r.matched_count, modified_count |-> r.modified_count,
     inserted_id |-> r.inserted_id]

\* GET /api/health: no dependency, no store access.
HealthCheck ==
    /\ last = NoResponse
    /\ last' = [NoResponse EXCEPT !.op = "health_check", !.status = HTTP_OK,
                                  !.success = TRUE]
    /\ UNCHANGED <<users, clock, inflight>>

\* Depends(get_current_user) raises: the request to endpoint `op` is
\* answered 401 and the handler is never entered.
Unauthorized(op, authorization) ==
    /\ last = NoResponse
    /\ get_current_user(authorization).status = HTTP_UNAUTHORIZED
    /\ last' = [NoResponse EXCEPT !.op = op, !.authorization = authorization,
                                  !.status = HTTP_UNAUTHORIZED]
    /\ UNCHANGED <<users, clock, inflight>>

\* The response has been sent to the client.  No action reads `last`: that
\* a response is sent before the next step is taken restricts nothing the
\* store or the running calls can do.
Send ==
    /\ last # NoResponse
    /\ last' = NoResponse
    /\ UNCHANGED <<users, clock, inflight>>

\* The bag `reqs` with its call `r` advanced to `r2`.
Replaced(reqs, r, r2) == (reqs (-) SetToBag({r})) (+) SetToBag({r2})

\* ------------------------------------------------------------ verify_token
\* POST /api/auth/verify-token is entered.
VerifyTokenReceive(req) ==
    /\ req.op = "verify_token"
    /\ last = NoResponse
    /\ BagCardinality(inflight) < MaxInflight
    /\ inflight' = inflight (+) SetToBag({Running(req, users)})
    /\ UNCHANGED <<users, clock, last>>

\* user = db.users.find_one({"phoneNumber": phone_number})
VerifyTokenFind(r) ==
    LET user == find_one(users, r.phone_number)
    IN  /\ r.pc = "find"
        /\ last = NoResponse
        /\ inflight' = Replaced(inflight, r,
               [r EXCEPT !.user = user, !.dbOps = r.dbOps + 1,
                         !.pc = IF user = 0 THEN "insert" ELSE "update"])
        /\ UNCHANGED <<users, clock, last>>

\* The document verify_token creates, its three utcnow() values in order.
new_user(id, phone_number, uid, t1, t2, t3) ==
    [_id |-> id, phoneNumber |-> phone_number, firebaseUid |-> uid,
     name |-> "", isActive |-> TRUE,
     isSuperAdmin |-> is_super_admin(phone_number),
     createdAt |-> t1, updatedAt |-> t2, lastLogin |-> t3]

\* if not user: db.users.insert_one(new_user)
VerifyTokenInsert(r) ==
        /\ r.pc = "insert"
        /\ last = NoResponse
        /\ Len(users) < MaxUsers
        /\ \E t1 \in clock..MaxClock : \E t2 \in t1..MaxClock :
           \E t3 \in t2..MaxClock :
              /\ users' = Append(users, new_user(Len(users) + 1,
                                     r.phone_number, r.uid, t1, t2, t3))
              /\ clock' = t3
        /\ inflight' = Replaced(inflight, r,
               [r EXCEPT !.inserted_id = Len(users) + 1,
                         !.dbOps = r.dbOps + 1, !.pc = "return"])
        /\ UNCHANGED last

\* Mutation of login_update: the login also stamps updatedAt.
login_update_stamping(phone_number, t) ==
    [lastLogin |-> t, isSuperAdmin |-> is_super_admin(phone_number),
     updatedAt |-> t]

\* Mutation of login_update: the stored isSuperAdmin is left as it is.
login_update_keeping_flag(phone_number, t) == [lastLogin |-> t]

\* The $set of verify_token on a document that exists.
login_update(phone_number, t) ==
    [lastLogin |-> t, isSuperAdmin |-> is_super_admin(phone_number)]

\* else: db.users.update_one({"phoneNumber": phone_number}, {"$set": ...})
VerifyTokenUpdate(r) ==
        /\ r.pc = "update"
        /\ last = NoResponse
        /\ \E t \in clock..MaxClock :
              /\ users' = update_one(users, r.phone_number,
                                     login_update(r.phone_number, t)).docs
              /\ clock' = t
        /\ inflight' = Replaced(inflight, r,
               [r EXCEPT !.dbOps = r.dbOps + 1, !.pc = "return"])
        /\ UNCHANGED last

\* The body of the success response of verify_token.
LoginView(user, is_admin) ==
    [phoneNumber |-> user.phoneNumber, name |-> user.name,
     isActive |-> user.isActive, isSuperAdmin |-> is_admin]

\* Mutation of verify_token_response: the active gate is missing.
verify_token_response_ungated(r, user) ==
    Response(r, HTTP_OK, TRUE,
             <<LoginView(user, is_super_admin(r.phone_number))>>)

\* The active gate of verify_token and its response for document `user`.
verify_token_response(r, user) ==
    LET is_admin == is_super_admin(r.phone_number)
    IN  IF ~user.isActive /\ ~is_admin
        THEN Response(r, HTTP_FORBIDDEN, FALSE, << >>)
        ELSE Response(r, HTTP_OK, TRUE, <<LoginView(user, is_admin)>>)

\* user = find_one(by _id after the insert, by phoneNumber after the update),
\* then the active gate, then the response.
VerifyTokenReturn(r) ==
    LET id == IF r.inserted_id # 0 THEN r.inserted_id
              ELSE find_one(users, r.phone_number)
    IN  /\ r.pc = "return"
        /\ last = NoResponse
        /\ last' = verify_token_response([r EXCEPT !.dbOps = r.dbOps + 1],
                                         users[id])
        /\ inflight' = inflight (-) SetToBag({r})
        /\ UNCHANGED <<users, clock>>

\* ---------------------------------------------------------------- profile
\* GET /api/users/profile
GetProfile(req) ==
    LET r == Running(req, users)
        user == find_one(users, r.phone_number)
        done == [r EXCEPT !.user = user, !.dbOps = 1]
    IN  /\ req.op = "get_profile"
        /\ last = NoResponse
        /\ last' = IF user = 0
                   THEN Response(done, HTTP_NOT_FOUND, FALSE, << >>)
                   ELSE Response(done, HTTP_OK, TRUE, <<users[user]>>)
        /\ UNCHANGED <<users, clock, inflight>>

\* The 404 test of update_profile on the result of its update_one.
profile_not_found(result) == result.modified_count = 0

\* PUT /api/users/profile
UpdateProfile(req) ==
    LET r == Running(req, users)
    IN  /\ req.op = "update_profile"
        /\ last = NoResponse
        /\ \E t \in clock..MaxClock :
              LET result == update_one(users, r.phone_number,
                                [name |-> r.name, updatedAt |-> t])
                  done == [r EXCEPT !.matched_count = result.matched_count,
                                    !.modified_count = result.modified_count,
                                    !.dbOps = 1]
              IN  /\ users' = result.docs
                  /\ clock' = t
                  /\ last' = IF profile_not_found(result)
                             THEN Response(done, HTTP_NOT_FOUND, FALSE, << >>)
                             ELSE Response(done, HTTP_OK, TRUE, << >>)
        /\ UNCHANGED inflight

\* ------------------------------------------------------------ super admin
\* GET /api/admin/users
GetAllUsers(req) ==
    LET r == Running(req, users)
    IN  /\ req.op = "get_all_users"
        /\ last = NoResponse
        /\ last' = IF ~is_super_admin(r.phone_number)
                   THEN Response(r, HTTP_FORBIDDEN, FALSE, << >>)
                   ELSE Response([r EXCEPT !.dbOps = 1], HTTP_OK, TRUE,
                                 find_not_admins(users))
        /\ UNCHANGED <<users, clock, inflight>>

\* GET /api/admin/users/search?query=
SearchUsers(req) ==
    LET r == Running(req, users)
    IN  /\ req.op = "search_users"
        /\ last = NoResponse
        /\ last' = IF ~is_super_admin(r.phone_number)
                   THEN Response(r, HTTP_FORBIDDEN, FALSE, << >>)
                   ELSE Response([r EXCEPT !.dbOps = 1], HTTP_OK, TRUE,
                                 find_regex_not_admins(users, r.query))
        /\ UNCHANGED <<users, clock, inflight>>

\* Calls of `phone` still running once its document was set active again.
Reactivated(reqs, phone) ==
    BagOfAll(LAMBDA r : IF r.phone_number = phone
                        THEN [r EXCEPT !.deactivated = FALSE] ELSE r, reqs)

\* Mutation of update_user_check: allow-listed targets are not refused.
update_user_check_caller_only(phone_number, user_phone) ==
    IF ~is_super_admin(phone_number) THEN HTTP_FORBIDDEN ELSE 0

\* The two checks update_user makes before it writes: the status it raises,
\* or 0 to go on.
update_user_check(phone_number, user_phone) ==
    IF ~is_super_admin(phone_number) THEN HTTP_FORBIDDEN
    ELSE IF user_phone \in SUPER_ADMINS THEN HTTP_BAD_REQUEST
    ELSE 0

\* PUT /api/admin/users/{user_phone}
UpdateUser(req) ==
    LET r == Running(req, users)
        raised == update_user_check(r.phone_number, r.user_phone)
    IN  /\ req.op = "update_user"
        /\ last = NoResponse
        /\ IF raised # 0
           THEN /\ last' = Response(r, raised, FALSE, << >>)
                /\ UNCHANGED <<users, clock, inflight>>
           ELSE \E t \in clock..MaxClock :
              LET result == update_one(users, r.user_phone,
                                [name |-> r.name, isActive |-> r.isActive,
                                 updatedAt |-> t])
                  done == [r EXCEPT !.matched_count = result.matched_count,
                                    !.modified_count = result.modified_count,
                                    !.dbOps = 1]
              IN  /\ users' = result.docs
                  /\ clock' = t
                  /\ last' = IF result.matched_count = 0
                             THEN Response(done, HTTP_NOT_FOUND, FALSE, << >>)
                             ELSE Response(done, HTTP_OK, TRUE, << >>)
                  /\ inflight' = IF result.matched_count = 1 /\ r.isActive
                                 THEN Reactivated(inflight, r.user_phone)
                                 ELSE inflight

\* ----------------------------------------------------------- specification
Init ==
    /\ users = << >>
    /\ clock = 0
    /\ inflight = EmptyBag
    /\ last = NoResponse

\* A store that earlier deployments left behind: nothing, or one document
\* written at time 0, before this run, while the allow-list was another one
\* (its isSuperAdmin is stale) and which a super admin of that time may have
\* deactivated.
LegacyStores ==
    {<< >>} \cup
    {<<[new_user(1, p, verify_id_token(<<t>>).uid, 0, 0, 0)
           EXCEPT !.isSuperAdmin = ~is_super_admin(p), !.isActive = a]>> :
        <<p, t>> \in {<<AdminPhone, "tokAdmin">>, <<UserPhone, "tokUser">>},
        a \in BOOLEAN}

InitLegacy ==
    /\ users \in LegacyStores
    /\ clock = 1
    /\ inflight = EmptyBag
    /\ last = NoResponse

Next ==
    \/ HealthCheck
    \/ \E op \in AuthOps, h \in BadHeaders : Unauthorized(op, h)
    \/ \E req \in Requests : VerifyTokenReceive(req)
    \/ \E r \in BagToSet(inflight) : VerifyTokenFind(r)
    \/ \E r \in BagToSet(inflight) : VerifyTokenInsert(r)
    \/ \E r \in BagToSet(inflight) : VerifyTokenUpdate(r)
    \/ \E r \in BagToSet(inflight) : VerifyTokenReturn(r)
    \/ \E req \in Requests : GetProfile(req)
    \/ \E req \in Requests : UpdateProfile(req)
    \/ \E req \in Requests : GetAllUsers(req)
    \/ \E req \in Requests : SearchUsers(req)
    \/ \E req \in Requests : UpdateUser(req)
    \/ Send

Spec == Init /\ [][Next]_vars

\* One request at a time: a request is taken only when no handler runs.
Idle == inflight = EmptyBag

NextSeq ==
    \/ Idle /\ HealthCheck
    \/ Idle /\ \E op \in AuthOps, h \in BadHeaders : Unauthorized(op, h)
    \/ Idle /\ \E req \in Requests : VerifyTokenReceive(req)
    \/ \E r \in BagToSet(inflight) : VerifyTokenFind(r)
    \/ \E r \in BagToSet(inflight) : VerifyTokenInsert(r)
    \/ \E r \in BagToSet(inflight) : VerifyTokenUpdate(r)
    \/ \E r \in BagToSet(inflight) : VerifyTokenReturn(r)
    \/ Idle /\ \E req \in Requests : GetProfile(req)
    \/ Idle /\ \E req \in Requests : UpdateProfile(req)
    \/ Idle /\ \E req \in Requests : GetAllUsers(req)
    \/ Idle /\ \E req \in Requests : SearchUsers(req)
    \/ Idle /\ \E req \in Requests : UpdateUser(req)
    \/ Send

SeqSpec == Init /\ [][NextSeq]_vars

\* The program started on a store of an earlier deployment.
LegacySpec == InitLegacy /\ [][Next]_vars


\* ================================================================== claims
AdminOps == {"get_all_users", "search_users", "update_user"}

\* The response being sent answers an authenticated caller's request `op`.
Answered(resp, ops) == resp.op \in ops /\ resp.phone_number # None

\* Documents d1 and d2 agree on every field outside `fields`.
SameExcept(d1, d2, fields) ==
    \A f \in DOMAIN d1 : f \notin fields => d1[f] = d2[f]

\* The first document of `phone` in natural order.
FirstOf(docs, phone) ==
    docs[CHOOSE i \in DOMAIN docs :
            /\ docs[i].phoneNumber = phone
            /\ \A j \in 1..(i - 1) : docs[j].phoneNumber # phone]

\* C1: a caller whose document is deactivated and whose phone number is not
\* in the allow-list gets 403 from every authenticated endpoint, and is
\* rejected before the endpoint touches the store.
C1_DeactivatedCallerRejectedFirst ==
    (Answered(last, AuthOps) /\ last.deactivated)
        => (last.status = HTTP_FORBIDDEN /\ last.dbOps = 0)

\* C2: the collection holds at most one document per phoneNumber in every
\* reachable state, concurrent first logins included.
C2_OneRecordPerPhone ==
    \A i, j \in DOMAIN users :
        users[i].phoneNumber = users[j].phoneNumber => i = j

\* C3: with one request served at a time, a verify-token call for an unseen
\* phone number inserts exactly one document (isActive true, name "") and
\* answers success with isActive true; a call for a phone number that has a
\* document inserts nothing and changes only lastLogin and isSuperAdmin of
\* that document.
C3_SequentialLogin ==
    [][\A r \in BagToSet(inflight) :
          LET p == r.phone_number
              seen == {i \in DOMAIN users : users[i].phoneNumber = p}
          IN  /\ r.pc = "find" =>
                    /\ users' = users
                    /\ \A r2 \in BagToSet(inflight') :
                          r2.pc = IF seen = {} THEN "insert" ELSE "update"
              /\ r.pc = "insert" =>
                    /\ seen = {}
                    /\ Len(users') = Len(users) + 1
                    /\ SubSeq(users', 1, Len(users)) = users
                    /\ users'[Len(users')].phoneNumber = p
                    /\ users'[Len(users')].isActive
                    /\ users'[Len(users')].name = ""
              /\ r.pc = "update" =>
                    /\ seen # {}
                    /\ Len(users') = Len(users)
                    /\ \A i \in DOMAIN users :
                          IF i \in seen
                          THEN SameExcept(users[i], users'[i],
                                          {"lastLogin", "isSuperAdmin"})
                          ELSE users'[i] = users[i]
              /\ r.pc = "return" =>
                    /\ users' = users
                    /\ last'.op = "verify_token"
                    /\ r.inserted_id # 0 =>
                          /\ last'.status = HTTP_OK /\ last'.success
                          /\ last'.data[1].isActive
                          /\ last'.data[1].name = ""]_vars

C3_Witness ==
    /\ last.op = "verify_token" /\ last.status = HTTP_OK
    /\ last.inserted_id = 0
    /\ last.data[1].name = "Asha"
    /\ FirstOf(users, last.phone_number).lastLogin
           > FirstOf(users, last.phone_number).createdAt

\* C4 as stated: updateUser on an allow-listed target answers 400 to every
\* authenticated caller.
C4_AdminTargetAlways400 ==
    (Answered(last, {"update_user"}) /\ last.user_phone \in SUPER_ADMINS)
        => last.status = HTTP_BAD_REQUEST

\* C4 as amended: updateUser on an allow-listed target never succeeds and
\* leaves the store unchanged; it answers 400 to a super-admin caller and 403
\* to every other authenticated caller.
C4_AdminTargetNeverEdited ==
    [][(Answered(last', {"update_user"}) /\ last'.user_phone \in SUPER_ADMINS)
          => /\ last'.status = IF last'.phone_number \in SUPER_ADMINS
                               THEN HTTP_BAD_REQUEST ELSE HTTP_FORBIDDEN
             /\ ~last'.success
             /\ users' = users]_vars

C4_Witness ==
    /\ Answered(last, {"update_user"})
    /\ last.user_phone \in SUPER_ADMINS
    /\ last.status = HTTP_BAD_REQUEST
    /\ \E i \in DOMAIN users : users[i].phoneNumber = last.user_phone

\* C5: listUsers, searchUsers and updateUser answer 403 to every caller whose
\* verified phone number is not in the allow-list, return no data and leave
\* the store unchanged, whatever isSuperAdmin the caller's document holds.
C5_NonAdminForbidden ==
    [][(Answered(last', AdminOps) /\ last'.phone_number \notin SUPER_ADMINS)
          => /\ last'.status = HTTP_FORBIDDEN
             /\ ~last'.success
             /\ last'.data = << >>
             /\ last'.dbOps = 0
             /\ users' = users]_vars

C5_Witness ==
    /\ Answered(last, {"update_user"})
    /\ last.phone_number \notin SUPER_ADMINS
    /\ last.status = HTTP_FORBIDDEN
    /\ \E i \in DOMAIN users :
          users[i].phoneNumber = last.phone_number /\ users[i].isSuperAdmin

\* C6: updateProfile answers 404 exactly when the caller's phone number has no
\* document; whenever one exists it succeeds.
C6_NotFoundIffNoRecord ==
    Answered(last, {"update_profile"})
        => (last.status = HTTP_NOT_FOUND
               <=> \A i \in DOMAIN users :
                      users[i].phoneNumber # last.phone_number)

\* C7: the lists listUsers and searchUsers return to a super admin hold no
\* document of an allow-listed phone number, and listUsers returns every
\* other document of the store.
C7_AdminListing ==
    (Answered(last, {"get_all_users", "search_users"})
        /\ last.status = HTTP_OK)
        => /\ \A k \in DOMAIN last.data :
                 last.data[k].phoneNumber \notin SUPER_ADMINS
           /\ last.op = "get_all_users" =>
                 /\ \A i \in DOMAIN users :
                       users[i].phoneNumber \notin SUPER_ADMINS
                           => \E k \in DOMAIN last.data :
                                 last.data[k] = WithoutId(users[i])
                 /\ Len(last.data) =
                       Cardinality({i \in DOMAIN users :
                           users[i].phoneNumber \notin SUPER_ADMINS})

C7_Witness ==
    /\ Answered(last, {"get_all_users"}) /\ last.status = HTTP_OK
    /\ Len(last.data) = 1
    /\ \E i \in DOMAIN users : users[i].phoneNumber \in SUPER_ADMINS

\* A header that must not authenticate: absent, not starting with "Bearer ",
\* a token the authority rejects, or a token without a phone_number claim.
FailsClosed(h) ==
    \/ h = << >>
    \/ Head(h) # "Bearer "
    \/ ~verify_id_token(Tail(h)).valid
    \/ verify_id_token(Tail(h)).phone_number = None

\* C8: a request to an authenticated endpoint whose header is absent, not
\* "Bearer ", rejected by the authority or without a phone_number claim is
\* answered 401; no handler runs for it and the store is neither read nor
\* changed.
C8_AuthFailsClosed ==
    [][/\ (last'.op \in AuthOps /\ FailsClosed(last'.authorization))
            => /\ last'.status = HTTP_UNAUTHORIZED
               /\ last'.dbOps = 0
               /\ users' = users
               /\ inflight' = inflight
       /\ \A r \in BagToSet(inflight') : ~FailsClosed(r.authorization)]_vars

C8_Witness ==
    /\ last.op = "update_profile"
    /\ last.authorization = <<"Bearer ", "tokNoPhone">>
    /\ last.status = HTTP_UNAUTHORIZED
    /\ users # << >>

\* C9: the isSuperAdmin verify-token writes and returns is the membership of
\* the verified phone number in the allow-list, whatever the document held;
\* no step sets a stored isSuperAdmin to anything else, so from the empty
\* store (where all flags agree with the allow-list) they agree for ever.
C9_AdminFromAllowList ==
    [][/\ \A r \in BagToSet(inflight') :
             r.pc = "return" =>
                LET doc == IF r.inserted_id # 0 THEN users'[r.inserted_id]
                           ELSE FirstOf(users', r.phone_number)
                IN  doc.isSuperAdmin = (r.phone_number \in SUPER_ADMINS)
       /\ (last'.op = "verify_token" /\ last'.status = HTTP_OK) =>
             last'.data[1].isSuperAdmin = (last'.phone_number \in SUPER_ADMINS)
       /\ \A i \in DOMAIN users :
             users'[i].isSuperAdmin # users[i].isSuperAdmin =>
                users'[i].isSuperAdmin
                    = (users'[i].phoneNumber \in SUPER_ADMINS)
       /\ \A i \in DOMAIN users' \ DOMAIN users :
             users'[i].isSuperAdmin
                 = (users'[i].phoneNumber \in SUPER_ADMINS)]_vars

C9_Witness ==
    /\ last.op = "verify_token" /\ last.status = HTTP_OK
    /\ users[1].phoneNumber = last.phone_number
    /\ users[1].createdAt < 1
    /\ users[1].isSuperAdmin = (last.phone_number \in SUPER_ADMINS)

\* C10: a verify-token call that starts while the caller's document is
\* deactivated (the caller not allow-listed) answers 403 unless an updateUser
\* sets isActive back meanwhile, and only a successful updateUser ever turns
\* a document's isActive from false to true.
C10_DeactivationSticks ==
    [][/\ (last'.op = "verify_token" /\ last'.deactivated)
             => last'.status = HTTP_FORBIDDEN
       /\ \A i \in DOMAIN users :
             (~users[i].isActive /\ users'[i].isActive)
                 => (last'.op = "update_user" /\ last'.status = HTTP_OK)]_vars

C10_Witness ==
    /\ last.op = "verify_token"
    /\ last.deactivated
    /\ last.status = HTTP_FORBIDDEN

====
